---- MODULE Spec2Model ----
(***************************************************************************)
(* Model of the Defconfig class of sdk/tools/mkdefconfig.py: load, save    *)
(* and save_diff over a symbol -> value mapping and a small file system.   *)
(* Text is modelled character by character: a string is a sequence of      *)
(* one-character strings, a file is the sequence of characters written.    *)
(***************************************************************************)
EXTENDS Integers, Sequences, FiniteSets, TLC

(* ---------------------------------------------------------------------- *)
(* Bounds of the exploration                                              *)
(* ---------------------------------------------------------------------- *)
MaxSteps == 2
MaxLines == 2
MaxSyms == 4

(* ---------------------------------------------------------------------- *)
(* Python strings: code points and comparison                             *)
(* ---------------------------------------------------------------------- *)
Ascii ==
  <<
    " ","!","\"","#","$","%","&","'","(",")","*","+",",","-",".","/",
    "0","1","2","3","4","5","6","7","8","9",":",";","<","=",">","?",
    "@","A","B","C","D","E","F","G","H","I","J","K","L","M","N","O",
    "P","Q","R","S","T","U","V","W","X","Y","Z","[","\\","]","^","_",
    "grave","a","b","c","d","e","f","g","h","i","j","k","l","m","n","o",
    "p","q","r","s","t","u","v","w","x","y","z","{","|","}","~" >>
\* (code point 96 is written "grave": it occurs in no text of the model)
NL == "\n"

Ord ==
  [c \in {Ascii[i] : i \in 1..Len(Ascii)} \cup {NL} |->
     IF c = NL THEN 10 ELSE 31 + (CHOOSE i \in 1..Len(Ascii) : Ascii[i] = c)]

SetMin(S) == CHOOSE x \in S : \A y \in S : x <= y
SetMax(S) == CHOOSE x \in S : \A y \in S : x >= y

\* str.__lt__ : lexicographic order by code point, a proper prefix is smaller
StrLess(a, b) ==
  LET n == IF Len(a) < Len(b) THEN Len(a) ELSE Len(b)
      d == {k \in 1..n : a[k] # b[k]}
  IN IF d = {} THEN Len(a) < Len(b)
     ELSE Ord[a[SetMin(d)]] < Ord[b[SetMin(d)]]

\* tuple.__lt__ on (sym, val) items
ItemLess(x, y) == StrLess(x[1], y[1]) \/ (x[1] = y[1] /\ StrLess(x[2], y[2]))

\* sorted(xs) for a list of strings: the stable ascending rearrangement
sorted(xs) ==
  LET n == Len(xs)
      rank(k) == 1 + Cardinality({j \in 1..n : StrLess(xs[j], xs[k])
                                     \/ (~StrLess(xs[k], xs[j]) /\ j < k)})
  IN [r \in 1..n |-> xs[CHOOSE k \in 1..n : rank(k) = r]]

\* sorted(items) for a list of (sym, val) tuples
sorted_items(xs) ==
  LET n == Len(xs)
      rank(k) == 1 + Cardinality({j \in 1..n : ItemLess(xs[j], xs[k])
                                     \/ (~ItemLess(xs[k], xs[j]) /\ j < k)})
  IN [r \in 1..n |-> xs[CHOOSE k \in 1..n : rank(k) = r]]

\* sep.join(xs)
RECURSIVE join(_, _)
join(sep, xs) ==
  IF xs = <<>> THEN <<>>
  ELSE IF Len(xs) = 1 THEN xs[1]
  ELSE xs[1] \o sep \o join(sep, Tail(xs))

\* t has pat at index k
Occurs(t, pat, k) ==
  /\ k >= 1
  /\ k + Len(pat) - 1 <= Len(t)
  /\ SubSeq(t, k, k + Len(pat) - 1) = pat

\* str.replace(old, '', 1) : drop the first occurrence of old, if any
replace_first(s, old) ==
  LET occ == {k \in 1..Len(s) : Occurs(s, old, k)}
  IN IF occ = {} THEN s
     ELSE SubSeq(s, 1, SetMin(occ) - 1) \o SubSeq(s, SetMin(occ) + Len(old), Len(s))

\* iteration over a text file: lines keep their terminating newline
SplitLines(c) ==
  LET ends == {k \in 1..Len(c) : c[k] = NL}
              \cup (IF Len(c) > 0 /\ c[Len(c)] # NL THEN {Len(c)} ELSE {})
      endOf(r) == CHOOSE e \in ends : Cardinality({x \in ends : x <= e}) = r
      startOf(r) == IF r = 1 THEN 1 ELSE endOf(r - 1) + 1
  IN [r \in 1..Cardinality(ends) |-> SubSeq(c, startOf(r), endOf(r))]

(* ---------------------------------------------------------------------- *)
(* Program constants                                                      *)
(* ---------------------------------------------------------------------- *)
CONFIG_ == <<"C","O","N","F","I","G","_">>
HashSpace == <<"#"," ">>
IsNotSetText == <<" ","i","s"," ","n","o","t"," ","s","e","t">>
DisabledValue == <<"n">>

DEFCONFIG_HEADER ==
  <<
    "#","\n","#"," ","T","h","i","s"," ","f","i","l","e"," ","i","s",
    " ","a","u","t","o","g","e","n","e","r","a","t","e","d",":"," ",
    "P","L","E","A","S","E"," ","D","O"," ","N","O","T"," ","E","D",
    "I","T"," ","I","T",".","\n","#","\n","#"," ","Y","o","u"," ","c",
    "a","n"," ","u","s","e"," ","\"","m","a","k","e"," ","m","e","n",
    "u","c","o","n","f","i","g","\""," ","t","o"," ","m","a","k","e",
    " ","a","n","y"," ","m","o","d","i","f","i","c","a","t","i","o",
    "n","s"," ","t","o"," ","t","h","e"," ","i","n","s","t","a","l",
    "l","e","d"," ",".","c","o","n","f","i","g"," ","f","i","l","e",
    ".","\n","#"," ","Y","o","u"," ","c","a","n"," ","t","h","e","n",
    " ","d","o"," ","\"","m","a","k","e"," ","s","a","v","e","d","e",
    "f","c","o","n","f","i","g","\""," ","t","o"," ","g","e","n","e",
    "r","a","t","e"," ","a"," ","n","e","w"," ","d","e","f","c","o",
    "n","f","i","g"," ","f","i","l","e"," ","t","h","a","t"," ","i",
    "n","c","l","u","d","e","s"," ","y","o","u","r","\n","#"," ","m",
    "o","d","i","f","i","c","a","t","i","o","n","s",".","\n","#" >>

(* ---------------------------------------------------------------------- *)
(* The two line grammars                                                  *)
(* ---------------------------------------------------------------------- *)
NoMatch == [matched |-> FALSE, symbol |-> <<>>, value |-> <<>>]

\* re.compile(r'^# (?P<symbol>.*) is not set').match(line)
is_not_set(line) ==
  LET cands == {e \in 3..Len(line) :
                  /\ Occurs(line, IsNotSetText, e)
                  /\ \A k \in 3..(e - 1) : line[k] # NL}
  IN IF Occurs(line, HashSpace, 1) /\ cands # {}
     THEN [matched |-> TRUE, symbol |-> SubSeq(line, 3, SetMax(cands) - 1),
           value |-> <<>>]
     ELSE NoMatch

\* re.compile(r'(?P<symbol>.*)=(?P<value>.*)').match(line)
is_config(line) ==
  LET cands == {e \in 1..Len(line) :
                  /\ line[e] = "="
                  /\ \A k \in 1..(e - 1) : line[k] # NL}
  IN IF cands = {} THEN NoMatch
     ELSE LET e == SetMax(cands)
              nls == {k \in (e + 1)..Len(line) : line[k] = NL}
              stop == IF nls = {} THEN Len(line) + 1 ELSE SetMin(nls)
          IN [matched |-> TRUE, symbol |-> SubSeq(line, 1, e - 1),
              value |-> SubSeq(line, e + 1, stop - 1)]

(* ---------------------------------------------------------------------- *)
(* dict in insertion order: a sequence of <<sym, val>> with distinct syms *)
(* ---------------------------------------------------------------------- *)
Keys(d) == {d[k][1] : k \in 1..Len(d)}
Has(d, sym) == \E k \in 1..Len(d) : d[k][1] = sym
Get(d, sym) == d[CHOOSE k \in 1..Len(d) : d[k][1] = sym][2]

\* variant: an existing entry is kept (dict.setdefault)
dict_set_keep_first(d, sym, val) ==
  IF Has(d, sym) THEN d ELSE Append(d, <<sym, val>>)

\* d[sym] = val
dict_set(d, sym, val) ==
  IF Has(d, sym)
  THEN [k \in 1..Len(d) |-> IF d[k][1] = sym THEN <<sym, val>> ELSE d[k]]
  ELSE Append(d, <<sym, val>>)

(* ---------------------------------------------------------------------- *)
(* Defconfig.load, line by line                                           *)
(* ---------------------------------------------------------------------- *)
\* variant: str.replace without the count, every occurrence is dropped
RECURSIVE strip_prefix_all(_)
strip_prefix_all(symbol) ==
  IF replace_first(symbol, CONFIG_) = symbol THEN symbol
  ELSE strip_prefix_all(replace_first(symbol, CONFIG_))

\* m.group('symbol').replace('CONFIG_', '', 1)
strip_prefix(symbol) == replace_first(symbol, CONFIG_)

\* body of the for loop of load
load_line(d, line) ==
  LET m == is_not_set(line)
      c == is_config(line)
  IN IF m.matched THEN dict_set(d, strip_prefix(m.symbol), DisabledValue)
     ELSE IF c.matched THEN dict_set(d, strip_prefix(c.symbol), c.value)
     ELSE d

RECURSIVE load_lines(_, _)
load_lines(d, lines) ==
  IF lines = <<>> THEN d
  ELSE load_lines(load_line(d, Head(lines)), Tail(lines))

(* ---------------------------------------------------------------------- *)
(* Defconfig.save                                                         *)
(* ---------------------------------------------------------------------- *)
\* '# CONFIG_%s is not set' % sym
fmt_not_set(sym) == HashSpace \o CONFIG_ \o sym \o IsNotSetText
\* 'CONFIG_%s=%s' % (sym, val)
fmt_config(sym, val) == CONFIG_ \o sym \o <<"=">> \o val

\* variant: no test for the disabled marker, every entry is an assignment
save_config_no_marker(d) ==
  LET items == sorted_items(d)
  IN [k \in 1..Len(items) |-> fmt_config(items[k][1], items[k][2])]

\* the list config built from sorted(self.opts.items())
save_config(d) ==
  LET items == sorted_items(d)
  IN [k \in 1..Len(items) |->
        IF items[k][2] = DisabledValue THEN fmt_not_set(items[k][1])
        ELSE fmt_config(items[k][1], items[k][2])]

\* variant: the lines are written in the order of the symbols, unsorted
save_entries_by_symbol(d) == save_config(d)

\* the entry lines in the order they are written
save_entries(d) == sorted(save_config(d))

\* print(DEFCONFIG_HEADER, file=f); print('\n'.join(sorted(config)), file=f)
save_text(d) ==
  DEFCONFIG_HEADER \o <<NL>> \o join(<<NL>>, save_entries(d)) \o <<NL>>

(* ---------------------------------------------------------------------- *)
(* Defconfig.save_diff                                                    *)
(* ---------------------------------------------------------------------- *)
\* '-%s=%s' % (sym, val)
fmt_minus(sym, val) == <<"-">> \o sym \o <<"=">> \o val
\* '+%s=%s' % (sym, val)
fmt_plus(sym, val) == <<"+">> \o sym \o <<"=">> \o val
\* variant: the two values are written in the other order
fmt_change_swapped(sym, old, val) ==
  <<" ">> \o sym \o <<"=">> \o val \o <<"-", ">">> \o old

\* ' %s=%s->%s' % (sym, target.opts[sym], val)
fmt_change(sym, old, val) == <<" ">> \o sym \o <<"=">> \o old \o <<"-", ">">> \o val

\* first loop: over target.opts.items()
RECURSIVE diff_minus(_, _)
diff_minus(selfopts, items) ==
  IF items = <<>> THEN <<>>
  ELSE LET it == Head(items)
           rest == diff_minus(selfopts, Tail(items))
       IN IF ~Has(selfopts, it[1]) THEN <<fmt_minus(it[1], it[2])>> \o rest
          ELSE rest

\* second loop: over self.opts.items(), the plus list
RECURSIVE diff_plus(_, _)
diff_plus(items, targetopts) ==
  IF items = <<>> THEN <<>>
  ELSE LET it == Head(items)
           rest == diff_plus(Tail(items), targetopts)
       IN IF ~Has(targetopts, it[1]) THEN <<fmt_plus(it[1], it[2])>> \o rest
          ELSE rest

\* variant: no comparison of the two values
RECURSIVE diff_changes_all(_, _)
diff_changes_all(items, targetopts) ==
  IF items = <<>> THEN <<>>
  ELSE LET it == Head(items)
           rest == diff_changes_all(Tail(items), targetopts)
       IN IF Has(targetopts, it[1])
          THEN <<fmt_change(it[1], Get(targetopts, it[1]), it[2])>> \o rest
          ELSE rest

\* second loop: the changes list
RECURSIVE diff_changes(_, _)
diff_changes(items, targetopts) ==
  IF items = <<>> THEN <<>>
  ELSE LET it == Head(items)
           rest == diff_changes(Tail(items), targetopts)
       IN IF Has(targetopts, it[1]) /\ Get(targetopts, it[1]) # it[2]
          THEN <<fmt_change(it[1], Get(targetopts, it[1]), it[2])>> \o rest
          ELSE rest

\* variant: the three lists are concatenated as they were built
diff_out_unsorted(selfopts, targetopts) ==
  diff_minus(selfopts, targetopts)
    \o diff_changes(selfopts, targetopts)
    \o diff_plus(selfopts, targetopts)

\* out = sorted(minus) + sorted(changes) + sorted(plus)
diff_out(selfopts, targetopts) ==
  sorted(diff_minus(selfopts, targetopts))
    \o sorted(diff_changes(selfopts, targetopts))
    \o sorted(diff_plus(selfopts, targetopts))

\* print('\n'.join(out), file=f)
save_diff_text(selfopts, targetopts) ==
  join(<<NL>>, diff_out(selfopts, targetopts)) \o <<NL>>

(* ---------------------------------------------------------------------- *)
(* The instances, the file system and the inputs                          *)
(* ---------------------------------------------------------------------- *)
None == "None"
Instances == {"newconfig", "baseconfig"}
Paths == {"defconfig", "new", "base"}
\* the path a constructor call binds, when it binds one
BoundPath == [i \in Instances |-> IF i = "newconfig" THEN "new" ELSE "base"]
\* the path arguments passed to load, save and save_diff
ArgPaths == {None, "defconfig"}

NoFile == [exists |-> FALSE, data |-> <<>>]
File(text) == [exists |-> TRUE, data |-> text]

Line_A_y == <<"C","O","N","F","I","G","_","A","=","y","\n">>
Line_A_b_c == <<"C","O","N","F","I","G","_","A","=","b","=","c","\n">>
Line_A_empty == <<"C","O","N","F","I","G","_","A","=","\n">>
Line_A_not_set == <<"#"," ","C","O","N","F","I","G","_","A"," ","i","s"," ","n","o","t"," ","s","e","t","\n">>
Line_B_2 == <<"C","O","N","F","I","G","_","B","=","2","\n">>
Line_CONFIG_X_y == <<"C","O","N","F","I","G","_","C","O","N","F","I","G","_","X","=","y","\n">>
Line_CONFIG_X_not_set == <<"#"," ","C","O","N","F","I","G","_","C","O","N","F","I","G","_","X"," ","i","s"," ","n","o","t"," ","s","e","t","\n">>
Line_FOO_comment == <<"C","O","N","F","I","G","_","F","O","O"," ","#"," ","c","o","m","m","e","n","t","\n">>
Line_blank == <<"\n">>

InputLines ==
  {Line_A_y, Line_A_b_c, Line_A_empty,
   Line_A_not_set, Line_B_2, Line_CONFIG_X_y,
   Line_CONFIG_X_not_set, Line_FOO_comment, Line_blank}

\* the text files of at most n input lines
InputFiles(n) ==
  {join(<<>>, s) : s \in UNION {[1..k -> InputLines] : k \in 0..n}}

\* configs/default/defconfig
BaseFile == Line_B_2 \o Line_A_not_set

Symbols == {<<"A">>, <<"A", "1">>, <<"B">>}
\* values of a populated mapping: plain, disabled, with '=' inside, empty
Values == {<<"1">>, DisabledValue, <<"b", "=", "c">>, <<>>}
\* values of the two mappings that are compared
DiffValues == {<<"1">>, <<"2">>}

\* the dicts of at most n entries over Symbols and Values, in every insertion order
OrderedMaps(n, vals) ==
  {d \in UNION {[1..k -> Symbols \X vals] : k \in 0..n} :
     \A a, b \in 1..Len(d) : a # b => d[a][1] # d[b][1]}

VARIABLES opts, path, fs, ret, last, hist, origin, steps
vars == <<opts, path, fs, ret, last, hist, origin, steps>>

NoOrigin == [saved |-> FALSE, opts |-> <<>>]

\* Defconfig.__init__ for both instances, before any call
Init ==
  /\ opts = [i \in Instances |-> <<>>]
  /\ path \in {f \in [Instances -> Paths \cup {None}] :
                 \A i \in Instances : f[i] \in {None, BoundPath[i]}}
  /\ \E text \in InputFiles(MaxLines) :
       fs = [p \in Paths |-> IF p = "defconfig" THEN File(text)
                             ELSE IF p = "base" THEN File(BaseFile)
                             ELSE NoFile]
  /\ ret = None
  /\ last = [op |-> "init", inst |-> "newconfig", target |-> "newconfig",
             path |-> None, fresh |-> TRUE]
  /\ hist = [i \in Instances |-> <<>>]
  /\ origin = [p \in Paths |-> NoOrigin]
  /\ steps = 0

\* two instances whose mappings have been populated, to be compared
InitDiff ==
  /\ opts \in {o \in [Instances -> OrderedMaps(MaxSyms, DiffValues)] :
                 Len(o["newconfig"]) + Len(o["baseconfig"]) <= MaxSyms}
  /\ path = BoundPath
  /\ fs = [p \in Paths |-> NoFile]
  /\ ret = None
  /\ last = [op |-> "init", inst |-> "newconfig", target |-> "newconfig",
             path |-> None, fresh |-> TRUE]
  /\ hist = [i \in Instances |-> <<>>]
  /\ origin = [p \in Paths |-> NoOrigin]
  /\ steps = 0

\* one populated instance and one freshly created, empty instance
InitRT ==
  /\ \E d \in OrderedMaps(MaxSyms, Values) :
       opts = [i \in Instances |-> IF i = "newconfig" THEN d ELSE <<>>]
  /\ path = BoundPath
  /\ fs = [p \in Paths |-> NoFile]
  /\ ret = None
  /\ last = [op |-> "init", inst |-> "newconfig", target |-> "newconfig",
             path |-> None, fresh |-> TRUE]
  /\ hist = [i \in Instances |-> <<>>]
  /\ origin = [p \in Paths |-> NoOrigin]
  /\ steps = 0

\* if path == None: path = self.path
resolve(i, arg) == IF arg = None THEN path[i] ELSE arg

\* variant: no os.path.exists test, open() raises on a missing file
load_no_exists_test(i, arg) ==
  LET p == resolve(i, arg)
  IN /\ steps < MaxSteps
     /\ steps' = steps + 1
     /\ last' = [op |-> "load", inst |-> i, target |-> i, path |-> p,
                 fresh |-> (opts[i] = <<>>)]
     /\ IF p = None
        THEN /\ ret' = "-1"
             /\ UNCHANGED <<opts, hist>>
        ELSE IF ~fs[p].exists
        THEN /\ ret' = "FileNotFoundError"
             /\ UNCHANGED <<opts, hist>>
        ELSE /\ opts' = [opts EXCEPT ![i] = load_lines(@, SplitLines(fs[p].data))]
             /\ hist' = [hist EXCEPT ![i] = @ \o SplitLines(fs[p].data)]
             /\ ret' = None
     /\ UNCHANGED <<path, fs, origin>>

load(i, arg) ==
  LET p == resolve(i, arg)
  IN /\ steps < MaxSteps
     /\ steps' = steps + 1
     /\ last' = [op |-> "load", inst |-> i, target |-> i, path |-> p,
                 fresh |-> (opts[i] = <<>>)]
     /\ IF p = None \/ ~fs[p].exists
        THEN /\ ret' = "-1"
             /\ UNCHANGED <<opts, hist>>
        ELSE /\ opts' = [opts EXCEPT ![i] = load_lines(@, SplitLines(fs[p].data))]
             /\ hist' = [hist EXCEPT ![i] = @ \o SplitLines(fs[p].data)]
             /\ ret' = None
     /\ UNCHANGED <<path, fs, origin>>

save(i, arg) ==
  LET p == resolve(i, arg)
  IN /\ steps < MaxSteps
     /\ steps' = steps + 1
     /\ last' = [op |-> "save", inst |-> i, target |-> i, path |-> p,
                 fresh |-> (opts[i] = <<>>)]
     /\ IF p = None
        THEN /\ ret' = "TypeError"
             /\ UNCHANGED <<fs, origin>>
        ELSE /\ fs' = [fs EXCEPT ![p] = File(save_text(opts[i]))]
             /\ origin' = [origin EXCEPT ![p] = [saved |-> TRUE, opts |-> opts[i]]]
             /\ ret' = None
     /\ UNCHANGED <<opts, path, hist>>

save_diff(i, target, arg) ==
  LET p == resolve(i, arg)
  IN /\ steps < MaxSteps
     /\ steps' = steps + 1
     /\ last' = [op |-> "save_diff", inst |-> i, target |-> target, path |-> p,
                 fresh |-> (opts[i] = <<>>)]
     /\ IF p = None
        THEN /\ ret' = "TypeError"
             /\ UNCHANGED <<fs, origin>>
        ELSE /\ fs' = [fs EXCEPT ![p] = File(save_diff_text(opts[i], opts[target]))]
             /\ origin' = [origin EXCEPT ![p] = NoOrigin]
             /\ ret' = None
     /\ UNCHANGED <<opts, path, hist>>

Load == \E i \in Instances, arg \in ArgPaths : load(i, arg)
Save == \E i \in Instances, arg \in ArgPaths : save(i, arg)
SaveDiff == \E i \in Instances, arg \in ArgPaths :
              \E target \in Instances \ {i} : save_diff(i, target, arg)

Next == Load \/ Save \/ SaveDiff

NextDiff == SaveDiff
NextRT == Save \/ Load

Spec == Init /\ [][Next]_vars
SpecDiff == InitDiff /\ [][NextDiff]_vars
SpecRT == InitRT /\ [][NextRT]_vars

(* ---------------------------------------------------------------------- *)
(* Vocabulary of the properties                                           *)
(* ---------------------------------------------------------------------- *)
\* a dict as the set of its (symbol, value) pairs
AsMap(d) == {<<d[k][1], d[k][2]>> : k \in 1..Len(d)}

\* pat occurs somewhere in s
Contains(s, pat) == \E k \in 1..Len(s) : Occurs(s, pat, k)

\* a line without its terminating newline
Chomp(line) ==
  IF Len(line) > 0 /\ line[Len(line)] = NL THEN SubSeq(line, 1, Len(line) - 1)
  ELSE line

\* the lines of a printed list: '\n'.join(xs) followed by print's newline
\* (the text of a printed empty list is the newline alone)
PrintedLines(text) ==
  IF text = <<NL>> THEN <<>>
  ELSE [k \in 1..Len(SplitLines(text)) |-> Chomp(SplitLines(text)[k])]

\* number of positions of xs holding x
Count(xs, x) == Cardinality({k \in 1..Len(xs) : xs[k] = x})

\* k is s with exactly its first occurrence of pat removed (s itself if none)
RemovedFirst(s, pat, k) ==
  IF ~Contains(s, pat) THEN k = s
  ELSE \E at \in 1..Len(s) :
         /\ Occurs(s, pat, at)
         /\ \A b \in 1..(at - 1) : ~Occurs(s, pat, b)
         /\ k = SubSeq(s, 1, at - 1) \o SubSeq(s, at + Len(pat), Len(s))

\* the two grammars as load tells them apart
Recognized(line) == is_not_set(line).matched \/ is_config(line).matched
SymbolText(line) ==
  IF is_not_set(line).matched THEN is_not_set(line).symbol
  ELSE is_config(line).symbol
NamedSym(line) == strip_prefix(SymbolText(line))
GivenValue(line) ==
  IF is_not_set(line).matched THEN DisabledValue ELSE is_config(line).value

\* the last operation was a successful load / save / save_diff
Loaded == last.op = "load" /\ ret = None
Saved(p) == origin[p].saved
Diffed == last.op = "save_diff" /\ ret = None

(* ---------------------------------------------------------------------- *)
(* C1  round trip                                                         *)
(* ---------------------------------------------------------------------- *)
\* C1: a mapping without the disabled marker, saved and then loaded into a
\* freshly created empty instance, is recovered exactly (same symbols, same
\* value for every symbol), also when values are empty or contain '='.
C1_RoundTrip ==
  (/\ Loaded
   /\ last.fresh
   /\ Saved(last.path)
   /\ \A k \in 1..Len(origin[last.path].opts) :
        origin[last.path].opts[k][2] # DisabledValue)
  => AsMap(opts[last.inst]) = AsMap(origin[last.path].opts)

(* ---------------------------------------------------------------------- *)
(* C2  save_diff classification                                           *)
(* ---------------------------------------------------------------------- *)
\* the line the classification gives a symbol, and whether it gives one
DiffHasLine(s, o, sym) ==
  \/ Has(o, sym) /\ ~Has(s, sym)
  \/ Has(s, sym) /\ ~Has(o, sym)
  \/ Has(s, sym) /\ Has(o, sym) /\ Get(s, sym) # Get(o, sym)
DiffLineOf(s, o, sym) ==
  IF ~Has(s, sym) THEN <<"-">> \o sym \o <<"=">> \o Get(o, sym)
  ELSE IF ~Has(o, sym) THEN <<"+">> \o sym \o <<"=">> \o Get(s, sym)
  ELSE <<" ">> \o sym \o <<"=">> \o Get(o, sym) \o <<"-", ">">> \o Get(s, sym)

\* C2: the diff written by save_diff holds exactly one line per symbol that is
\* only in other ('-SYM=<other>'), only in self ('+SYM=<self>') or in both
\* with different values (' SYM=<other>-><self>'), no line for a symbol with
\* equal values, and nothing else.
C2_DiffClassification ==
  Diffed =>
    LET s == opts[last.inst]
        o == opts[last.target]
        lines == PrintedLines(fs[last.path].data)
        need == {sym \in Keys(s) \cup Keys(o) : DiffHasLine(s, o, sym)}
    IN /\ Len(lines) = Cardinality(need)
       /\ \A sym \in need : Count(lines, DiffLineOf(s, o, sym)) = 1
       /\ \A k \in 1..Len(lines) :
            \E sym \in need : lines[k] = DiffLineOf(s, o, sym)

\* a diff with a removed, a changed and an added symbol
C2_Witness ==
  /\ Diffed
  /\ \E a, b, c \in Keys(opts[last.inst]) \cup Keys(opts[last.target]) :
       /\ ~Has(opts[last.inst], a)
       /\ ~Has(opts[last.target], b)
       /\ Has(opts[last.inst], c) /\ Has(opts[last.target], c)
       /\ Get(opts[last.inst], c) # Get(opts[last.target], c)
  /\ Len(PrintedLines(fs[last.path].data)) = 3

(* ---------------------------------------------------------------------- *)
(* C3  save_diff ordering                                                 *)
(* ---------------------------------------------------------------------- *)
GroupRank(line) ==
  IF line # <<>> /\ line[1] = "-" THEN 1
  ELSE IF line # <<>> /\ line[1] = " " THEN 2
  ELSE IF line # <<>> /\ line[1] = "+" THEN 3
  ELSE 0

\* C3: in the written diff the minus lines come first, then the changes
\* lines, then the plus lines, and each group is in ascending order of the
\* full line text, whatever the insertion order of the two mappings.
C3_DiffOrdering ==
  Diffed =>
    LET lines == PrintedLines(fs[last.path].data)
    IN \A a, b \in 1..Len(lines) :
         a < b =>
           /\ GroupRank(lines[a]) >= 1
           /\ GroupRank(lines[a]) <= GroupRank(lines[b])
           /\ GroupRank(lines[a]) = GroupRank(lines[b])
                => StrLess(lines[a], lines[b])

\* self = {A1=.., A=..} inserted in descending order, other = {B=.., A1=..}:
\* one line in every group, and two mappings not inserted in sorted order
C3_Witness ==
  /\ Diffed
  /\ last.inst = "newconfig"
  /\ Len(opts["newconfig"]) = 2
  /\ opts["newconfig"][1][1] = <<"A", "1">>
  /\ opts["newconfig"][2] = <<<<"A">>, <<"1">>>>
  /\ opts["baseconfig"] = << <<<<"B">>, <<"2">>>>, <<<<"A", "1">>, <<"1">>>> >>
  /\ opts["newconfig"][1][2] = <<"2">>
  /\ PrintedLines(fs[last.path].data) =
       << <<"-", "B", "=", "2">>,
          <<" ", "A", "1", "=", "1", "-", ">", "2">>,
          <<"+", "A", "=", "1">> >>

(* ---------------------------------------------------------------------- *)
(* C4  no differences                                                     *)
(* ---------------------------------------------------------------------- *)
\* C4: when self and other hold identical mappings (both empty included),
\* the file save_diff writes is empty: zero bytes, no lines.
C4_NoDiffEmptyFile ==
  (Diffed /\ AsMap(opts[last.inst]) = AsMap(opts[last.target]))
  => fs[last.path].data = <<>>

\* C4 (amended): when self and other hold identical mappings, save_diff
\* writes no diff line; the file is the single newline that print emits for
\* the empty list (one byte), not an empty file.
C4_NoDiffNewlineOnly ==
  (Diffed /\ AsMap(opts[last.inst]) = AsMap(opts[last.target]))
  => /\ fs[last.path].data = <<NL>>
     /\ PrintedLines(fs[last.path].data) = <<>>

\* equal mappings of two entries, inserted in different orders
C4_Witness ==
  /\ Diffed
  /\ Len(opts[last.inst]) = 2
  /\ opts[last.inst] # opts[last.target]
  /\ AsMap(opts[last.inst]) = AsMap(opts[last.target])

(* ---------------------------------------------------------------------- *)
(* C5  load of a missing path                                             *)
(* ---------------------------------------------------------------------- *)
\* C5: a load whose path is unresolvable (no argument, no bound path) or does
\* not exist returns the failure result -1, which no successful load returns,
\* raises nothing, and leaves every mapping and bound path as it was.
C5_LoadMissing ==
  [][ last'.op = "load" =>
        IF last'.path = None \/ ~fs[last'.path].exists
        THEN ret' = "-1" /\ opts' = opts /\ path' = path
        ELSE ret' = None ]_vars

\* a failed load on an unbound instance that had loaded entries before
C5_Witness ==
  /\ last.op = "load"
  /\ ret = "-1"
  /\ last.path = None
  /\ opts[last.inst] # <<>>
  /\ hist[last.inst] # <<>>

(* ---------------------------------------------------------------------- *)
(* C6  keys and the on-disk prefix                                        *)
(* ---------------------------------------------------------------------- *)
\* C6: after any sequence of load calls no key of the mapping contains the
\* text 'CONFIG_', also for lines such as 'CONFIG_CONFIG_X=y' or
\* '# CONFIG_CONFIG_X is not set'.
C6_PrefixFreeKeys ==
  \A i \in Instances : \A sym \in Keys(opts[i]) : ~Contains(sym, CONFIG_)

\* C6 (amended): after any sequence of load calls every key is the symbol
\* text of a recognized loaded line with exactly its first occurrence of
\* 'CONFIG_' removed, and every recognized loaded line has such a key; so a
\* line 'CONFIG_<S>=..' or '# CONFIG_<S> is not set' records the key S, which
\* is free of the prefix when S is, and 'CONFIG_CONFIG_X=y' records 'CONFIG_X'.
C6_PrefixStrippedOnce ==
  \A i \in Instances :
    /\ \A sym \in Keys(opts[i]) :
         \E k \in 1..Len(hist[i]) :
           /\ Recognized(hist[i][k])
           /\ RemovedFirst(SymbolText(hist[i][k]), CONFIG_, sym)
    /\ \A k \in 1..Len(hist[i]) :
         Recognized(hist[i][k]) =>
           /\ \E sym \in Keys(opts[i]) :
                RemovedFirst(SymbolText(hist[i][k]), CONFIG_, sym)
           /\ Occurs(SymbolText(hist[i][k]), CONFIG_, 1) =>
                Has(opts[i], SubSeq(SymbolText(hist[i][k]), Len(CONFIG_) + 1,
                                    Len(SymbolText(hist[i][k]))))

\* the key CONFIG_X recorded from a doubly prefixed line, next to a plain key
C6_Witness ==
  \E i \in Instances :
    /\ Has(opts[i], CONFIG_ \o <<"X">>)
    /\ \E sym \in Keys(opts[i]) : ~Contains(sym, CONFIG_)

(* ---------------------------------------------------------------------- *)
(* C7  where an assignment line is split                                  *)
(* ---------------------------------------------------------------------- *)
\* the reading of an assignment line that splits at the first '='
FirstEq(line) == SetMin({k \in 1..Len(line) : line[k] = "="})
FirstSplitSym(line) == strip_prefix(SubSeq(line, 1, FirstEq(line) - 1))
FirstSplitVal(line) == SubSeq(Chomp(line), FirstEq(line) + 1, Len(Chomp(line)))
IsAssignment(line) == ~is_not_set(line).matched /\ Contains(line, <<"=">>)
ReadSym(line) ==
  IF is_not_set(line).matched THEN strip_prefix(is_not_set(line).symbol)
  ELSE FirstSplitSym(line)

\* C7: load records, for an assignment line, the text before the first '='
\* (prefix stripped once) as the symbol and everything after that first '='
\* as the value: 'CONFIG_A=b=c' stores A with value 'b=c', 'CONFIG_A=' stores
\* A with the empty value.
C7_SplitAtFirstEquals ==
  Loaded =>
    LET lines == SplitLines(fs[last.path].data)
    IN \A k \in 1..Len(lines) :
         (/\ IsAssignment(lines[k])
          /\ \A j \in (k + 1)..Len(lines) :
               (is_not_set(lines[j]).matched \/ IsAssignment(lines[j]))
                 => ReadSym(lines[j]) # ReadSym(lines[k]))
         => /\ Has(opts[last.inst], FirstSplitSym(lines[k]))
            /\ Get(opts[last.inst], FirstSplitSym(lines[k])) = FirstSplitVal(lines[k])

(* ---------------------------------------------------------------------- *)
(* C8  canonical order of save                                            *)
(* ---------------------------------------------------------------------- *)
HeaderLines == SplitLines(DEFCONFIG_HEADER \o <<NL>>)

\* what follows the header in a saved file
AfterHeader(text) == SubSeq(text, Len(DEFCONFIG_HEADER) + 2, Len(text))

\* the line the format gives an entry
EntryLineOf(item) ==
  IF item[2] = DisabledValue
  THEN <<"#", " ">> \o CONFIG_ \o item[1] \o IsNotSetText
  ELSE CONFIG_ \o item[1] \o <<"=">> \o item[2]

\* C8: after the fixed header a saved file holds exactly one line per symbol
\* ('# CONFIG_<SYM> is not set' or 'CONFIG_<SYM>=<VALUE>'), no two equal, in
\* strictly ascending order of the full line text, whatever the insertion
\* order; the bytes written are thus fixed by the set of (symbol, value)
\* pairs alone, so equal mappings give identical output.
C8_CanonicalSave ==
  \A p \in Paths :
    Saved(p) =>
      LET d == origin[p].opts
          text == fs[p].data
          entries == PrintedLines(AfterHeader(text))
      IN /\ text = DEFCONFIG_HEADER \o <<NL>> \o join(<<NL>>, entries) \o <<NL>>
         /\ Len(entries) = Cardinality(AsMap(d))
         /\ {entries[k] : k \in 1..Len(entries)} = {EntryLineOf(it) : it \in AsMap(d)}
         /\ \A a, b \in 1..Len(entries) : a < b => StrLess(entries[a], entries[b])

\* a saved mapping whose insertion order is the order of its symbols while
\* the order of its lines is the reverse
C8_Witness ==
  \E p \in Paths :
    /\ Saved(p)
    /\ origin[p].opts = << <<<<"A">>, <<"y">>>>, <<CONFIG_ \o <<"X">>, DisabledValue>> >>
    /\ PrintedLines(AfterHeader(fs[p].data)) =
         << <<"#", " ">> \o CONFIG_ \o CONFIG_ \o <<"X">> \o IsNotSetText,
            CONFIG_ \o <<"A", "=", "y">> >>

(* ---------------------------------------------------------------------- *)
(* C9  the disabled marker survives save and load                         *)
(* ---------------------------------------------------------------------- *)
\* C9: a symbol S with the disabled marker 'n' is saved as the line
\* '# CONFIG_S is not set', never as 'CONFIG_S=n', and a load of the saved
\* file into a freshly created instance records S with the value 'n'.
C9_DisabledRoundTrip ==
  \A p \in Paths :
    Saved(p) =>
      \A k \in 1..Len(origin[p].opts) :
        origin[p].opts[k][2] = DisabledValue =>
          LET sym == origin[p].opts[k][1]
              lines == PrintedLines(AfterHeader(fs[p].data))
          IN /\ Count(lines, <<"#", " ">> \o CONFIG_ \o sym \o IsNotSetText) = 1
             /\ Count(lines, CONFIG_ \o sym \o <<"=", "n">>) = 0
             /\ (Loaded /\ last.fresh /\ last.path = p)
                  => /\ Has(opts[last.inst], sym)
                     /\ Get(opts[last.inst], sym) = DisabledValue

\* a mapping with a disabled symbol and an assignment, saved by one instance
\* and loaded by the fresh one
C9_Witness ==
  /\ Loaded
  /\ last.fresh
  /\ last.inst = "baseconfig"
  /\ Saved(last.path)
  /\ \E k \in 1..Len(origin[last.path].opts) :
       /\ origin[last.path].opts[k][2] = DisabledValue
       /\ Get(opts["baseconfig"], origin[last.path].opts[k][1]) = DisabledValue
  /\ \E k \in 1..Len(origin[last.path].opts) :
       origin[last.path].opts[k][2] = <<"1">>

(* ---------------------------------------------------------------------- *)
(* C10  repeated loads merge, the last line wins                          *)
(* ---------------------------------------------------------------------- *)
\* positions of the loaded lines that name sym
Naming(i, sym) ==
  {k \in 1..Len(hist[i]) : Recognized(hist[i][k]) /\ NamedSym(hist[i][k]) = sym}

\* C10: after any sequence of successful loads every symbol has one value,
\* the one given by the last recognized line naming it over all files loaded
\* in call order; a symbol named by an earlier file stays, and lines of
\* neither grammar add or change nothing.
C10_LoadMerge ==
  \A i \in Instances :
    /\ \A a, b \in 1..Len(opts[i]) : a # b => opts[i][a][1] # opts[i][b][1]
    /\ \A k \in 1..Len(hist[i]) :
         Recognized(hist[i][k]) => Has(opts[i], NamedSym(hist[i][k]))
    /\ \A sym \in Keys(opts[i]) :
         /\ Naming(i, sym) # {}
         /\ Get(opts[i], sym) = GivenValue(hist[i][SetMax(Naming(i, sym))])
    /\ ~Recognized(Line_FOO_comment) /\ ~Recognized(Line_blank)
    /\ \A k \in 1..Len(HeaderLines) : ~Recognized(HeaderLines[k])

\* two successful loads on one instance: the second file overwrote A, left
\* the B of the first file alone, and held a line of neither grammar
C10_Witness ==
  \E i \in Instances :
    /\ steps = 2
    /\ Loaded
    /\ last.inst = i
    /\ \E a, b \in 1..Len(hist[i]) :
         /\ a < b
         /\ hist[i][a] = Line_A_not_set
         /\ hist[i][b] = Line_A_y
    /\ Get(opts[i], <<"A">>) = <<"y">>
    /\ Has(opts[i], <<"B">>)
    /\ Get(opts[i], <<"B">>) = <<"2">>
    /\ hist[i][Len(hist[i])] = Line_FOO_comment
    /\ Len(opts[i]) = 2

====
